---- MODULE Spec2Model ----
(***************************************************************************)
(* Edge-node event/clip delivery pipeline: the durable store (DBManager),  *)
(* the Aggregator's HTTP surface onto it and the Uploader's upload         *)
(* protocol, modelled from edge_node/db/manager.py,                        *)
(* edge_node/services/vss_aggregator.py and                                *)
(* edge_node/services/vss_uploader.py.                                     *)
(*                                                                         *)
(* Timestamps (created_at, updated_at, last_attempt_ts) are not modelled:  *)
(* no code path reads them.  A row's filepath is identified with the clip  *)
(* of its event; whether that path exists on disk is the set clips.        *)
(***************************************************************************)
EXTENDS Integers, FiniteSets, Sequences, TLC

\* ---------------------------------------------------------------- bounds
MaxEvents == 1
MaxRetriesCfg == 2
MaxMarkRequests == 1
MaxAttemptN == 4
MaxPackages == 2
MaxKbRows == 3
MaxIngestWorkers == 3
MaxNvrs == 2
MaxCamerasPerNvr == 2
MaxSignals == 3

\* ---------------------------------------------------------------- values
\* Python None / SQL NULL, and a present optional value.
NULL == <<>>
Some(x) == <<x>>

EventIds == 1..MaxEvents
\* The two Uploader processes of the row-lease claims; the program as shipped
\* runs one (Uploader.run_loop in __main__).
Workers == {"u1", "u2"}
SingleUploader == {"u1"}

Terminal == {"UPLOADED", "FAILED"}
NonTerminal == {"PENDING_UPLOAD", "PROCESSING"}

\* upload_id = f"upload-{event_id}"
LocalUploadId(e) == <<"upload", e>>
\* An id the central server may put in a presign response for event e: an id of
\* the server's own making ("mock-upload-N"), which no local row carries.
ServerUploadIds(e) == {<<"srv", e>>}

\* calculate_sha256: the hex digest of the clip bytes of event e.
calculate_sha256(e) == <<"sha256", <<"clip", e>>>>
\* final_url as issued by the server for an event's clip.
FinalUrl(e) == <<"cdn", e>>

\* upload.max_retries values a config may carry: no retry budget (0, 1)
\* and a budget that allows retries.
MaxRetriesValues == {0, 1, MaxRetriesCfg}

\* get_pending_uploads(limit=10) in Uploader.run_loop
UPLOADER_LIMIT == 10

VARIABLES
    events,         \* events table: event_id -> [status]
    uploads,        \* pending_uploads table: upload_id -> row
    clips,          \* event ids whose clip file exists on disk
    max_retries,    \* config.upload.max_retries
    pc,             \* per Uploader: where it stands in run_loop/process_upload
    batch,          \* per Uploader: detached rows of the current batch not yet processed
    cur,            \* per Uploader: the detached row process_upload works on
    txn,            \* per Uploader: locals of process_upload (checksum, upload_id, final_url)
    client_failed,  \* upload ids whose transaction ended on a 4xx answer (observation)
    marks,          \* POST /events/mark_status requests served so far
    reply,          \* what the last insert_event / POST /events/new call came back with (observation)
    killed,         \* where the Uploader stood when it was killed, "no" before (observation)
    backoff,        \* Uploader._handle_failure: inputs and result of the retry sleep computation
    cfg,            \* config_loader: the nvr_list of a configuration and what load_edge_config made of it
    sync,           \* SyncWorker: position in run_sync, packages of the response still to process
    model_dir,      \* /opt/vss/models: install directories and their contents
    staging,        \* /opt/vss/models/<id>-<version>.tar.gz files present
    reloads,        \* versions vss_cv was told to reload and accepted
    kb_meta,        \* kb_meta table: rows [id, kb_version, applied_at]
    clock,          \* wall clock of the device, whole seconds (CURRENT_TIMESTAMP)
    kb_last,        \* kb_version of the last committed KBMeta insert (observation)
    cv_model_version, \* vss_cv: CVEngine.model_version
    ingest_workers, \* IngestService.workers: camera_id -> IngestWorker fields
    ingest_running, \* IngestService run_loop is alive
    mqtt            \* MQTTClient: control messages handled and what they led to (observation)

\* The store, the Aggregator and the Uploader.
core == <<events, uploads, clips, max_retries, pc, batch, cur, txn, client_failed, marks,
          reply, killed>>
syncVars == <<sync, model_dir, staging, reloads, kb_meta, clock, kb_last, cv_model_version>>
ingestVars == <<ingest_workers, ingest_running>>
\* Everything outside the store, the Aggregator and the Uploader.
ext == <<backoff, cfg, syncVars, ingestVars, mqtt>>

vars == <<core, ext>>

NoUpload == [upload_id |-> NULL, event_id |-> 0, attempts |-> 0]
NoTxn == [checksum |-> NULL, upload_id |-> NULL, final_url |-> NULL]
NoReply == [call |-> "none", result |-> "none"]
NoBackoff == [B |-> 0, n |-> 0, jitter |-> 0, wait_time |-> NULL]
NoCfg == [nvr_list |-> <<>>, result |-> NULL]
NoSync == [pc |-> "idle", queue |-> <<>>, sha_history |-> {}, since |-> NULL]
NoMqtt == [last |-> NULL, outcome |-> "none", extract_clip |-> {}, submitted |-> {}]

\* ---------------------------------------------------------------- store

\* PendingUpload.attempts is Mapped[int] (NOT NULL); checksum and final_url are
\* Mapped[Optional[str]].
NotNullColumns == {"attempts"}

\* DBManager.update_upload_status(upload_id, status, **kwargs): one transaction.
\* An UPDATE that matches no row changes nothing and raises nothing; a NULL
\* written to a NOT NULL column raises and the transaction is rolled back.
UpdateMirrorAlways(ups, evs, upload_id, status, kwargs) ==
    LET exists == upload_id \in DOMAIN ups
        raised == exists /\ \E k \in DOMAIN kwargs \cap NotNullColumns : kwargs[k] = NULL
        row    == ups[upload_id]
        newrow == [row EXCEPT
                     !.status    = status,
                     !.attempts  = IF "attempts" \in DOMAIN kwargs THEN kwargs.attempts[1] ELSE @,
                     !.checksum  = IF "checksum" \in DOMAIN kwargs THEN kwargs.checksum ELSE @,
                     !.final_url = IF "final_url" \in DOMAIN kwargs THEN kwargs.final_url ELSE @]
    IN  IF ~exists \/ raised
        THEN [uploads |-> ups, events |-> evs, raised |-> raised]
        ELSE [uploads |-> [ups EXCEPT ![upload_id] = newrow],
              events  |-> [evs EXCEPT ![row.event_id].status = status],
              raised  |-> FALSE]

UpdateNoMirror(ups, evs, upload_id, status, kwargs) ==
    LET r == UpdateMirrorAlways(ups, evs, upload_id, status, kwargs)
    IN  [r EXCEPT !.events = evs]

UpdateWithoutWhere(ups, evs, upload_id, status, kwargs) ==
    LET exists == upload_id \in DOMAIN ups
        raised == exists /\ \E k \in DOMAIN kwargs \cap NotNullColumns : kwargs[k] = NULL
    IN  IF ~exists \/ raised
        THEN [uploads |-> ups, events |-> evs, raised |-> raised]
        ELSE [uploads |-> [x \in DOMAIN ups |-> [ups[x] EXCEPT !.status = status]],
              events  |-> IF status \in {"UPLOADED", "FAILED"}
                          THEN [evs EXCEPT ![ups[upload_id].event_id].status = status]
                          ELSE evs,
              raised  |-> FALSE]

update_upload_status(ups, evs, upload_id, status, kwargs) ==
    LET exists == upload_id \in DOMAIN ups
        raised == exists /\ \E k \in DOMAIN kwargs \cap NotNullColumns : kwargs[k] = NULL
        row    == ups[upload_id]
        newrow == [row EXCEPT
                     !.status    = status,
                     !.attempts  = IF "attempts" \in DOMAIN kwargs THEN kwargs.attempts[1] ELSE @,
                     !.checksum  = IF "checksum" \in DOMAIN kwargs THEN kwargs.checksum ELSE @,
                     !.final_url = IF "final_url" \in DOMAIN kwargs THEN kwargs.final_url ELSE @]
    IN  IF ~exists \/ raised
        THEN [uploads |-> ups, events |-> evs, raised |-> raised]
        ELSE [uploads |-> [ups EXCEPT ![upload_id] = newrow],
              events  |-> IF status \in {"UPLOADED", "FAILED"}
                          THEN [evs EXCEPT ![row.event_id].status = status]
                          ELSE evs,
              raised  |-> FALSE]

\* DBManager.get_pending_uploads: the detached rows whose status is PENDING_UPLOAD.
PendingRows ==
    {[upload_id |-> id, event_id |-> uploads[id].event_id, attempts |-> uploads[id].attempts] :
        id \in {x \in DOMAIN uploads : uploads[x].status = "PENDING_UPLOAD"}}

Min(a, b) == IF a < b THEN a ELSE b

\* SELECT ... LIMIT limit, with no ORDER BY: any limit-sized part of the pending rows.
get_pending_uploads(limit) ==
    {S \in SUBSET PendingRows : Cardinality(S) = Min(limit, Cardinality(PendingRows))}

\* DBManager.insert_event: both rows in one transaction; a duplicate primary key
\* (events.event_id, pending_uploads.upload_id) raises at commit and nothing is stored.
InsertEventNotAtomic(e, has_clip) ==
    /\ e \notin DOMAIN events
    /\ LocalUploadId(e) \notin DOMAIN uploads
    /\ events' = events @@ (e :> [status |-> "PENDING_UPLOAD"])
    /\ clips' = IF has_clip THEN clips \cup {e} ELSE clips
    /\ reply' = [call |-> "insert_event", result |-> "returned"]
    /\ UNCHANGED <<uploads, max_retries, pc, batch, cur, txn, client_failed, marks, killed, ext>>

InsertEvent(e, has_clip) ==
    /\ e \notin DOMAIN events
    /\ LocalUploadId(e) \notin DOMAIN uploads
    /\ events' = events @@ (e :> [status |-> "PENDING_UPLOAD"])
    /\ uploads' = uploads @@ (LocalUploadId(e) :>
                     [event_id |-> e, attempts |-> 0, status |-> "PENDING_UPLOAD",
                      checksum |-> NULL, final_url |-> NULL])
    /\ clips' = IF has_clip THEN clips \cup {e} ELSE clips
    /\ reply' = [call |-> "insert_event", result |-> "returned"]
    /\ UNCHANGED <<max_retries, pc, batch, cur, txn, client_failed, marks, killed, ext>>

\* insert_event with an event_id the store already has, as an upsert would do it.
InsertEventDuplicateReplaces(e) ==
    /\ e \in DOMAIN events \/ LocalUploadId(e) \in DOMAIN uploads
    /\ events' = [events EXCEPT ![e] = [status |-> "PENDING_UPLOAD"]]
    /\ uploads' = [uploads EXCEPT ![LocalUploadId(e)] =
                     [event_id |-> e, attempts |-> 0, status |-> "PENDING_UPLOAD",
                      checksum |-> NULL, final_url |-> NULL]]
    /\ reply' = [call |-> "insert_event", result |-> "returned"]
    /\ UNCHANGED <<clips, max_retries, pc, batch, cur, txn, client_failed, marks, killed, ext>>

\* insert_event with an event_id the store already has: the INSERT violates the
\* primary key of events (and of pending_uploads), session.commit() raises
\* IntegrityError, the session is closed without a commit: nothing is stored.
InsertEventDuplicate(e) ==
    /\ e \in DOMAIN events \/ LocalUploadId(e) \in DOMAIN uploads
    /\ reply' = [call |-> "insert_event", result |-> "IntegrityError"]
    /\ UNCHANGED <<events, uploads, clips, max_retries, pc, batch, cur, txn,
                   client_failed, marks, killed, ext>>

\* insert_event cut short before session.commit() has returned (the process
\* dies, or the commit fails): both INSERTs belong to the one transaction of
\* the session, which the store then does not have.
InsertEventAborted(e) ==
    /\ reply' = [call |-> "insert_event", result |-> "aborted"]
    /\ UNCHANGED <<events, uploads, clips, max_retries, pc, batch, cur, txn,
                   client_failed, marks, killed, ext>>


\* ---------------------------------------------------------------- central API
\* What one HTTP request of the Uploader can come back with, other than 2xx:
\* 0 stands for a transport failure (connect/read timeout, DNS), the others for
\* the status raise_for_status() turns into requests.exceptions.HTTPError.
HttpErrors == {0, 404, 503}

\* The status process_upload hands to _handle_failure: e.response.status_code for
\* an HTTPError, 500 for any other exception.
ExceptStatus(o) == IF o = 0 THEN 500 ELSE o

\* JSON bodies of a 2xx presign answer for the clip of event e; upload_id = NULL
\* is a body without the key.
PresignBodies(e) ==
    [upload_url : {NULL, Some("put-url")},
     final_url  : {NULL, Some(FinalUrl(e))},
     upload_id  : {NULL} \cup {Some(i) : i \in ServerUploadIds(e)}]

\* `if not upload_url or not final_url: raise ValueError`
PresignBodyOk(body) == body.upload_url # NULL /\ body.final_url # NULL

\* presigned_data.get("upload_id", upload.upload_id)
EffectiveUploadId(body, upload) ==
    IF body.upload_id = NULL THEN upload.upload_id ELSE body.upload_id[1]

\* ---------------------------------------------------------------- Uploader
HttpSteps == {"presign", "put", "complete", "metadata"}

Finish(w) ==
    /\ pc' = [pc EXCEPT ![w] = "idle"]
    /\ cur' = [cur EXCEPT ![w] = NoUpload]
    /\ txn' = [txn EXCEPT ![w] = NoTxn]

Store(r) ==
    /\ uploads' = r.uploads
    /\ events' = r.events

\* Uploader.run_loop: fetch a batch when the previous one is done.  An empty
\* batch is the `sleep(5); continue` branch.
GetPending(w) ==
    /\ pc[w] = "idle"
    /\ batch[w] = {}
    /\ \E S \in get_pending_uploads(UPLOADER_LIMIT) : batch' = [batch EXCEPT ![w] = S]
    /\ UNCHANGED <<events, uploads, clips, max_retries, pc, cur, txn, client_failed, marks, reply, killed, ext>>

\* process_upload, `if not file_path.exists()`: FAILED and return.
ProcessMissingFileAsTransient(w) ==
    /\ pc[w] = "idle"
    /\ \E u \in batch[w] :
        /\ u.event_id \notin clips
        /\ batch' = [batch EXCEPT ![w] = @ \ {u}]
        /\ Store(update_upload_status(uploads, events, u.upload_id, "PENDING_UPLOAD",
                                      [attempts |-> Some(u.attempts + 1)]))
    /\ UNCHANGED <<clips, max_retries, pc, cur, txn, client_failed, marks, reply, killed, ext>>

ProcessMissingFile(w) ==
    /\ pc[w] = "idle"
    /\ \E u \in batch[w] :
        /\ u.event_id \notin clips
        /\ batch' = [batch EXCEPT ![w] = @ \ {u}]
        /\ Store(update_upload_status(uploads, events, u.upload_id, "FAILED", <<>>))
    /\ UNCHANGED <<clips, max_retries, pc, cur, txn, client_failed, marks, reply, killed, ext>>

\* process_upload up to the presign request: the checksum is computed, the
\* request is on the wire.
ProcessBegin(w) ==
    /\ pc[w] = "idle"
    /\ \E u \in batch[w] :
        /\ u.event_id \in clips
        /\ batch' = [batch EXCEPT ![w] = @ \ {u}]
        /\ cur' = [cur EXCEPT ![w] = u]
        /\ txn' = [txn EXCEPT ![w] = [checksum  |-> Some(calculate_sha256(u.event_id)),
                                      upload_id |-> Some(u.upload_id),
                                      final_url |-> NULL]]
    /\ pc' = [pc EXCEPT ![w] = "presign"]
    /\ UNCHANGED <<events, uploads, clips, max_retries, client_failed, marks, reply, killed, ext>>

\* Presign answered 2xx with both urls: the row is written PROCESSING under the
\* effective upload id, then the PUT starts.
PresignOk(w, body) ==
    /\ pc[w] = "presign"
    /\ body \in PresignBodies(cur[w].event_id)
    /\ PresignBodyOk(body)
    /\ LET id == EffectiveUploadId(body, cur[w])
       IN  /\ txn' = [txn EXCEPT ![w].upload_id = Some(id), ![w].final_url = body.final_url]
           /\ Store(update_upload_status(uploads, events, id, "PROCESSING",
                                         [checksum |-> txn[w].checksum]))
    /\ pc' = [pc EXCEPT ![w] = "put"]
    /\ UNCHANGED <<clips, max_retries, batch, cur, client_failed, marks, reply, killed, ext>>

PutOkSkipsComplete(w) ==
    /\ pc[w] = "put"
    /\ pc' = [pc EXCEPT ![w] = "metadata"]
    /\ UNCHANGED <<events, uploads, clips, max_retries, batch, cur, txn, client_failed, marks, reply, killed, ext>>

PutOk(w) ==
    /\ pc[w] = "put"
    /\ pc' = [pc EXCEPT ![w] = "complete"]
    /\ UNCHANGED <<events, uploads, clips, max_retries, batch, cur, txn, client_failed, marks, reply, killed, ext>>

CompleteOk(w) ==
    /\ pc[w] = "complete"
    /\ pc' = [pc EXCEPT ![w] = "metadata"]
    /\ UNCHANGED <<events, uploads, clips, max_retries, batch, cur, txn, client_failed, marks, reply, killed, ext>>

\* Metadata answered 2xx: the final status update, under the effective upload id.
MetadataOk(w) ==
    /\ pc[w] = "metadata"
    /\ cur[w].event_id \in DOMAIN events
    /\ Store(update_upload_status(uploads, events, txn[w].upload_id[1], "UPLOADED",
                                  [final_url |-> txn[w].final_url]))
    /\ Finish(w)
    /\ UNCHANGED <<clips, max_retries, batch, client_failed, marks, reply, killed, ext>>

\* JSON payloads of the Uploader's POST requests, built from the detached row
\* `upload` and the locals of process_upload.  The presign payload has no
\* upload_id key; the PUT carries the clip bytes and the checksum header only.
PresignRequest(w) == [event_id |-> cur[w].event_id]

CompleteRequest(w) ==
    [upload_id |-> cur[w].upload_id, event_id |-> cur[w].event_id,
     final_url |-> txn[w].final_url, checksum |-> txn[w].checksum]

MetadataRequest(w) ==
    [event_id |-> cur[w].event_id, clip_url |-> txn[w].final_url,
     upload_id |-> cur[w].upload_id]

\* Uploader._handle_failure, the branch taken for a row read with `attempts`
\* failed attempts and a failure of status `status_code`.
HandleFailureOffByOne(attempts, status_code, retries) ==
    IF attempts + 1 > retries THEN "exhausted"
    ELSE IF status_code >= 500 THEN "retry"
    ELSE "client_error"

HandleFailureRetryAll(attempts, status_code, retries) ==
    IF attempts + 1 >= retries THEN "exhausted"
    ELSE IF status_code >= 400 THEN "retry"
    ELSE "client_error"

HandleFailureBranch(attempts, status_code, retries) ==
    IF attempts + 1 >= retries THEN "exhausted"
    ELSE IF status_code >= 500 THEN "retry"
    ELSE "client_error"

\* Times of the retry sleep are in milliseconds.
MS == 1000
\* min(backoff_time + jitter, 3600): the cap of one hour.
BACKOFF_CAP == 3600
\* upload.retry_backoff_seconds values a config may carry (an int, B >= 1).
BackoffBases == {1, 2, 60, 1800, 3600, 3601, 7200}
\* random.random() * retry_backoff_seconds lies in [0, B): both ends and the middle.
Jitters(B) == {0, (B * MS) \div 2, B * MS - 1}

\* wait_time in _handle_failure for base B (seconds), new_attempts = n and the
\* jitter drawn (milliseconds).
BackoffSleepUncapped(B, n, jitter) == B * MS * 2^(n - 1) + jitter

BackoffSleep(B, n, jitter) == Min(B * MS * 2^(n - 1) + jitter, BACKOFF_CAP * MS)

\* _handle_failure(upload, status_code) up to its sleep: FAILED at once, or the
\* backoff sleep.
HandleFailure(w, status_code) ==
    LET new_attempts == cur[w].attempts + 1
    IN  IF HandleFailureBranch(cur[w].attempts, status_code, max_retries) = "retry"
        THEN /\ pc' = [pc EXCEPT ![w] = "backoff"]
             /\ UNCHANGED <<events, uploads, cur, txn>>
        ELSE /\ Store(update_upload_status(uploads, events, cur[w].upload_id, "FAILED",
                                           [attempts |-> Some(new_attempts)]))
             /\ Finish(w)

\* An HTTP step fails: HTTPError (4xx/5xx) or any other exception.
RequestFails(w, o) ==
    /\ pc[w] \in HttpSteps
    /\ o \in HttpErrors
    /\ HandleFailure(w, ExceptStatus(o))
    /\ client_failed' = IF o >= 400 /\ o <= 499
                        THEN client_failed \cup {cur[w].upload_id}
                        ELSE client_failed
    /\ UNCHANGED <<clips, max_retries, batch, marks, reply, killed, ext>>

\* Presign answered 2xx without upload_url or final_url: ValueError, caught by
\* `except Exception` and handled as status 500.
PresignMalformed(w, body) ==
    /\ pc[w] = "presign"
    /\ body \in PresignBodies(cur[w].event_id)
    /\ ~PresignBodyOk(body)
    /\ HandleFailure(w, 500)
    /\ UNCHANGED <<clips, max_retries, batch, client_failed, marks, reply, killed, ext>>

\* _handle_failure after time.sleep(wait_time): back to PENDING_UPLOAD.
BackoffDone(w) ==
    /\ pc[w] = "backoff"
    /\ Store(update_upload_status(uploads, events, cur[w].upload_id, "PENDING_UPLOAD",
                                  [attempts |-> Some(cur[w].attempts + 1)]))
    /\ Finish(w)
    /\ UNCHANGED <<clips, max_retries, batch, client_failed, marks, reply, killed, ext>>

\* The Uploader process is killed and started again: its memory is gone, the
\* store is as the last committed transaction left it.  __init__ and run_loop
\* do nothing to the rows the old process had in hand.
Crash(w) ==
    /\ pc[w] # "idle" \/ batch[w] # {}
    /\ batch' = [batch EXCEPT ![w] = {}]
    /\ Finish(w)
    /\ UNCHANGED <<events, uploads, clips, max_retries, client_failed, marks, reply, killed, ext>>

\* The kill-and-restart scenario: the Uploader process is killed once, at any
\* point of run_loop, and started again (Uploader.__init__, run_loop); where it
\* stood is kept as an observation.  Nothing in __init__ or run_loop reads or
\* writes the rows the old process had in hand.
Kill(w) ==
    /\ killed = "no"
    /\ pc[w] # "idle" \/ batch[w] # {}
    /\ killed' = pc[w]
    /\ batch' = [batch EXCEPT ![w] = {}]
    /\ Finish(w)
    /\ UNCHANGED <<events, uploads, clips, max_retries, client_failed, marks, reply, ext>>


\* ---------------------------------------------------------------- update_upload_status on its own
\* Stores the services can leave behind, over two events: an event and its row
\* are inserted together and never deleted, the row of event e is
\* LocalUploadId(e), and an Event still PENDING_UPLOAD has a row that is not
\* terminal (every terminal write is mirrored).
StoreEvents == {1, 2}
StoredPairs ==
    {p \in [event : [status : {"PENDING_UPLOAD", "UPLOADED", "FAILED"}],
            row   : [status : Terminal \cup NonTerminal, attempts : {0}]] :
        p.event.status = "PENDING_UPLOAD" => p.row.status \in NonTerminal}
StoreStates ==
    UNION {[S -> StoredPairs] : S \in SUBSET StoreEvents}
EventsOf(st) == [e \in DOMAIN st |-> st[e].event]
UploadsOf(st) ==
    [id \in {LocalUploadId(e) : e \in DOMAIN st} |->
        LET e == CHOOSE x \in DOMAIN st : LocalUploadId(x) = id
        IN  [event_id |-> e, status |-> st[e].row.status, attempts |-> st[e].row.attempts,
             checksum |-> NULL, final_url |-> NULL]]

\* Arguments the callers pass: the Uploader (checksum; final_url; attempts),
\* mark_event_status (all three, None when the request leaves them out), an
\* upload_id that has a row and one that has none.
UpdateIds == {LocalUploadId(e) : e \in StoreEvents} \cup ServerUploadIds(1)
UpdateKwargs ==
    {<<>>,
     [checksum |-> Some(calculate_sha256(1))],
     [final_url |-> NULL, checksum |-> NULL, attempts |-> NULL],
     [final_url |-> Some(FinalUrl(1)), checksum |-> Some(calculate_sha256(1)), attempts |-> Some(1)]}

\* One call of DBManager.update_upload_status.
UpdateUploadStatus(upload_id, status, kwargs) ==
    /\ Store(update_upload_status(uploads, events, upload_id, status, kwargs))
    /\ UNCHANGED <<clips, max_retries, pc, batch, cur, txn, client_failed, marks, reply, killed, ext>>

\* ---------------------------------------------------------------- Aggregator
\* StatusUpdate.status: pattern ^(PROCESSING|FAILED|UPLOADED)$
StatusUpdateStatuses == {"PROCESSING", "FAILED", "UPLOADED"}

\* Bodies of POST /events/mark_status.  An omitted optional field is None.
\* The upload_id is one a row has or will have (an unknown id until then); a
\* body carries a checksum and a final_url (not the Uploader's own) or
\* neither; attempts is omitted, or below, or above anything the Uploader writes.
StatusUpdate ==
    {[upload_id |-> LocalUploadId(e), status |-> st, final_url |-> fc[1],
      checksum |-> fc[2], attempts |-> a] :
        e \in EventIds,
        st \in StatusUpdateStatuses \cup {"PENDING_UPLOAD"},
        fc \in {<<NULL, NULL>>, <<Some(FinalUrl(0)), Some(calculate_sha256(0))>>},
        a \in {NULL, Some(0), Some(MaxRetriesCfg + 2)}}

\* mark_event_status: a body that fails validation is answered 422 before the
\* handler runs; otherwise update_upload_status gets all three optional fields,
\* None included, and an exception is answered 500.
MarkStatus(update) ==
    /\ marks < MaxMarkRequests
    /\ update \in StatusUpdate
    /\ marks' = marks + 1
    /\ IF update.status \in StatusUpdateStatuses
       THEN Store(update_upload_status(uploads, events, update.upload_id, update.status,
                     [final_url |-> update.final_url,
                      checksum  |-> update.checksum,
                      attempts  |-> update.attempts]))
       ELSE UNCHANGED <<events, uploads>>
    /\ UNCHANGED <<clips, max_retries, pc, batch, cur, txn, client_failed, reply, killed, ext>>

\* What insert_event returns: the tuple (event_id, upload_id), two str.
InsertEventReturn(e) ==
    <<[type |-> "str", value |-> e], [type |-> "str", value |-> LocalUploadId(e)]>>

\* Attribute lookup obj.name as create_new_event does it on the first element
\* of that tuple: an Event has event_id and status, a str has neither and the
\* lookup raises AttributeError.
HasAttr(obj, name) == obj.type = "Event" /\ name \in {"event_id", "status"}

\* create_new_event (POST /events/new) for a well-formed body: build_event_json
\* draws the event_id e (a timestamp and 4 hex digits of a uuid4, so an id
\* already stored can come up again), insert_event stores the rows, EventOut is
\* built from the returned values; any exception is answered 500.
CreateNewEvent(e, has_clip) ==
    LET fresh == e \notin DOMAIN events /\ LocalUploadId(e) \notin DOMAIN uploads
        event == InsertEventReturn(e)[1]
        built == HasAttr(event, "event_id") /\ HasAttr(event, "status")
    IN  /\ events' = IF fresh THEN events @@ (e :> [status |-> "PENDING_UPLOAD"]) ELSE events
        /\ uploads' = IF fresh
                      THEN uploads @@ (LocalUploadId(e) :>
                             [event_id |-> e, attempts |-> 0, status |-> "PENDING_UPLOAD",
                              checksum |-> NULL, final_url |-> NULL])
                      ELSE uploads
        /\ clips' = IF fresh /\ has_clip THEN clips \cup {e} ELSE clips
        /\ reply' = [call |-> "events_new",
                     result |-> IF fresh /\ built THEN "201" ELSE "500"]
        /\ UNCHANGED <<max_retries, pc, batch, cur, txn, client_failed, marks, killed, ext>>

\* ---------------------------------------------------------------- Sync worker
PackageIds == {"detector"}
\* Model versions as vss_cv and the packages poll name them: the version the
\* engine starts with, and the version of a package.
MockVersion == [name |-> "mock-v1.0", version |-> 0]
PackageVersion(v) == [name |-> "package", version |-> v]
PkgVersions == {1, 2}
\* Members of a package archive.
ArchiveFiles == {1, 2}
\* MODEL_STORAGE_PATH / package_id: absent, or a directory whose files each
\* come from some version's archive (0: no such file).
NoInstall == [exists |-> FALSE, files |-> [k \in ArchiveFiles |-> 0]]

\* One element of the packages response; complete = id, version, download_url,
\* sha256 and signature are all present and non-empty.
PackageManifests == [id : PackageIds, version : PkgVersions, complete : BOOLEAN]

RECURSIVE SeqsUpTo(_, _)
SeqsUpTo(S, n) ==
    IF n = 0 THEN {<<>>}
    ELSE LET shorter == SeqsUpTo(S, n - 1)
         IN  shorter \cup {Append(q, x) : q \in {r \in shorter : Len(r) = n - 1}, x \in S}

\* What the world does to one _process_package call.  download: "ok",
\* "http_error" (RequestException before the staging file is opened), "broken"
\* (RequestException while the body is streamed into the file), "io_error"
\* (OSError from open() or write(), e.g. disk full).  sha_ok: the bytes hash to
\* the manifest's sha256.  sig_ok: the signature verifies against the
\* pre-provisioned key.  extract: "ok" or "fails" (tarfile raises after the
\* first member).  reload: "ok" or "fails" (RequestException from vss_cv).
\* An install where everything works, and the installs where one thing does not.
InstallOk ==
    [download |-> "ok", sha_ok |-> TRUE, sig_ok |-> TRUE, extract |-> "ok", reload |-> "ok"]
PackageOutcomes ==
    {InstallOk}
      \cup {[InstallOk EXCEPT !.download = d] : d \in {"http_error", "broken", "io_error"}}
      \cup {[InstallOk EXCEPT !.sha_ok = FALSE], [InstallOk EXCEPT !.sig_ok = FALSE],
             [InstallOk EXCEPT !.extract = "fails"], [InstallOk EXCEPT !.reload = "fails"]}

ArchiveOf(pkg) == <<pkg.id, pkg.version>>

\* tar.extractall(path=install_path): members overwrite files of the same name.
Extracted(install, version, members) ==
    [exists |-> TRUE,
     files  |-> [k \in ArchiveFiles |-> IF k \in members THEN version ELSE install.files[k]]]

\* The steps _process_package has performed when it ends at `ended`, in the
\* order of its statements.  The signature step is a log line and a
\* commented-out call: no check is performed.
StepsTo(ended) ==
    IF ended = "invalid" THEN <<>>
    ELSE IF ended = "download" THEN <<"download">>
    ELSE IF ended = "sha256" THEN <<"download", "sha256", "unlink">>
    ELSE IF ended = "extract" THEN <<"download", "sha256", "extract">>
    ELSE <<"download", "sha256", "extract", "reload", "unlink">>

\* SyncWorker._process_package on the directory dir, the staging files stg and
\* the reload requests rel: the three afterwards, whether the call returned
\* (raised = FALSE) or let an exception through, and how far it came.
ProcessPackageKeepsStaging(pkg, o, dir, stg, rel) ==
    LET arch == ArchiveOf(pkg)
        same(st, end) == [model_dir |-> dir, staging |-> st, reloads |-> rel,
                          raised |-> FALSE, ended |-> end, steps |-> StepsTo(end)]
    IN  IF ~pkg.complete THEN same(stg, "invalid")
        ELSE IF o.download = "http_error" THEN same(stg, "download")
        ELSE IF o.download = "broken" THEN same(stg \cup {arch}, "download")
        ELSE IF o.download = "io_error"
             THEN [same(stg \cup {arch}, "download") EXCEPT !.raised = TRUE]
        ELSE IF ~o.sha_ok THEN same(stg \cup {arch}, "sha256")
        ELSE IF o.extract = "fails"
             THEN [same(stg \cup {arch}, "extract") EXCEPT
                     !.model_dir = [dir EXCEPT ![pkg.id] = Extracted(@, pkg.version, {1})]]
        ELSE [model_dir |-> [dir EXCEPT ![pkg.id] = Extracted(@, pkg.version, ArchiveFiles)],
              staging   |-> stg \ {arch},
              reloads   |-> rel \cup {pkg.version},
              raised    |-> FALSE,
              ended     |-> IF o.reload = "ok" THEN "installed" ELSE "reload",
              steps     |-> StepsTo("installed")]

process_package(pkg, o, dir, stg, rel) ==
    LET arch == ArchiveOf(pkg)
        same(st, end) == [model_dir |-> dir, staging |-> st, reloads |-> rel,
                          raised |-> FALSE, ended |-> end, steps |-> StepsTo(end)]
    IN  IF ~pkg.complete THEN same(stg, "invalid")
        ELSE IF o.download = "http_error" THEN same(stg, "download")
        ELSE IF o.download = "broken" THEN same(stg \cup {arch}, "download")
        ELSE IF o.download = "io_error"
             THEN [same(stg \cup {arch}, "download") EXCEPT !.raised = TRUE]
        ELSE IF ~o.sha_ok THEN same(stg \ {arch}, "sha256")
        ELSE IF o.extract = "fails"
             THEN [same(stg \cup {arch}, "extract") EXCEPT
                     !.model_dir = [dir EXCEPT ![pkg.id] = Extracted(@, pkg.version, {1})]]
        ELSE [model_dir |-> [dir EXCEPT ![pkg.id] = Extracted(@, pkg.version, ArchiveFiles)],
              staging   |-> stg \ {arch},
              reloads   |-> rel \cup {pkg.version},
              raised    |-> FALSE,
              ended     |-> IF o.reload = "ok" THEN "installed" ELSE "reload",
              steps     |-> StepsTo("installed")]

PackageResponses == {NULL} \cup {Some(q) : q \in SeqsUpTo(PackageManifests, MaxPackages)}

KbVersionValues == {"1.0.1", "1.0.2"}
\* The KB manifest response: NULL for a RequestException, else the two keys
\* the code reads (NULL: key absent or empty).
KbManifests ==
    {NULL} \cup {Some([kb_version |-> v, delta_package_url |-> u]) :
                    v \in {NULL} \cup {Some(x) : x \in KbVersionValues},
                    u \in {NULL, Some("url")}}
QuietKbManifests == {m \in KbManifests : m = NULL \/ m[1].kb_version = NULL}

\* SyncWorker._get_last_kb_version: ORDER BY applied_at DESC, first row.
\* applied_at is CURRENT_TIMESTAMP, whole seconds; among rows of the same
\* second the order is unspecified, so every such row can be the answer.
get_last_kb_version(rows) ==
    IF rows = {} THEN {"0.0.0"}
    ELSE {r.kb_version : r \in {x \in rows : \A y \in rows : y.applied_at <= x.applied_at}}

\* Observation, not program state: the package ids whose archive failed the
\* SHA-256 check ("mismatch"), and those installed after such a failure.
ShaHistory(h, id, ended) ==
    IF ended = "sha256" THEN (h \ {<<id, "installed">>}) \cup {<<id, "mismatch">>}
    ELSE IF ended = "installed" /\ <<id, "mismatch">> \in h
         THEN (h \ {<<id, "mismatch">>}) \cup {<<id, "installed">>}
    ELSE h

SyncFrame == <<core, backoff, cfg, ingestVars, mqtt>>

\* SyncWorker._poll_packages up to the response: a RequestException or an
\* empty list ends the package step.
PollPackages(resp) ==
    /\ sync.pc = "idle"
    /\ sync' = IF resp = NULL \/ resp[1] = <<>>
               THEN [sync EXCEPT !.pc = "kb", !.queue = <<>>, !.since = Some(MockVersion)]
               ELSE [sync EXCEPT !.pc = "packages", !.queue = resp[1], !.since = Some(MockVersion)]
    /\ UNCHANGED <<SyncFrame, model_dir, staging, reloads, kb_meta, clock, kb_last, cv_model_version>>

\* One iteration of the loop over the response in _poll_packages.  An
\* exception that _process_package lets through is caught neither there
\* (only RequestException is) nor in run_sync or run_loop: the worker ends.
ProcessPackage(o) ==
    /\ sync.pc = "packages"
    /\ LET pkg == Head(sync.queue)
           r   == process_package(pkg, o, model_dir, staging, reloads)
       IN  /\ model_dir' = r.model_dir
           /\ staging' = r.staging
           /\ reloads' = r.reloads
           /\ cv_model_version' = IF r.ended = "installed"
                                  THEN PackageVersion(pkg.version)
                                  ELSE cv_model_version
           /\ sync' = IF r.raised
                      THEN [sync EXCEPT !.pc = "dead", !.queue = <<>>]
                      ELSE [pc          |-> IF Len(sync.queue) = 1 THEN "kb" ELSE "packages",
                            queue       |-> Tail(sync.queue),
                            sha_history |-> ShaHistory(sync.sha_history, pkg.id, r.ended),
                            since       |-> sync.since]
    /\ UNCHANGED <<SyncFrame, kb_meta, clock, kb_last>>

\* SyncWorker._poll_kb_manifest with _download_and_apply_kb.
PollKbManifest(m) ==
    /\ sync.pc = "kb"
    /\ \E current \in get_last_kb_version(kb_meta) :
         IF /\ m # NULL
            /\ m[1].kb_version # NULL
            /\ m[1].kb_version[1] # current
            /\ m[1].delta_package_url # NULL
         THEN /\ Cardinality(kb_meta) < MaxKbRows
              /\ kb_meta' = kb_meta \cup {[id         |-> Cardinality(kb_meta) + 1,
                                            kb_version |-> m[1].kb_version[1],
                                            applied_at |-> clock]}
              /\ kb_last' = m[1].kb_version
         ELSE UNCHANGED <<kb_meta, kb_last>>
    /\ sync' = [sync EXCEPT !.pc = "sleep"]
    /\ UNCHANGED <<SyncFrame, model_dir, staging, reloads, clock, cv_model_version>>

\* run_loop after run_sync: time.sleep(1), then the wait for poll_interval.
\* Only the order and the equality of applied_at values can be observed, so
\* clock counts the seconds in which a KBMeta row was written.
TickSleep ==
    /\ sync.pc = "sleep"
    /\ sync' = [sync EXCEPT !.pc = "idle"]
    /\ clock' = IF \E r \in kb_meta : r.applied_at = clock THEN clock + 1 ELSE clock
    /\ UNCHANGED <<SyncFrame, model_dir, staging, reloads, kb_meta, kb_last, cv_model_version>>

\* applied_at is the wall clock (func.now()), which the system may set back
\* (time synchronisation, a reboot without a battery-backed clock).
ClockSetBack ==
    /\ clock > 0
    /\ \E t \in 0..(clock - 1) : clock' = t
    /\ UNCHANGED <<SyncFrame, sync, model_dir, staging, reloads, kb_meta, kb_last, cv_model_version>>

\* The process ends (crash, kill, or the exception above) and is started
\* again: __init__ sets last_sync_time = 0, so the first tick is immediate.
SyncRestart ==
    /\ sync.pc # "idle"
    /\ sync' = [sync EXCEPT !.pc = "idle", !.queue = <<>>]
    /\ UNCHANGED <<SyncFrame, model_dir, staging, reloads, kb_meta, clock, kb_last, cv_model_version>>

\* ---------------------------------------------------------------- Ingest supervisor
\* The cameras of the configuration, one IngestWorker each.
IngestCameras == 1..MaxIngestWorkers

\* IngestWorker.__init__.  child is the segmenter process behind self.process
\* ("none", "running", "exited"); signals is what stop() has sent, in order;
\* killed_alive counts the children of this worker that were sent SIGKILL
\* without being waited for and have not ended yet.
NewWorker ==
    [process |-> NULL, stop_event |-> FALSE, restart_count |-> 0, waited |-> NULL,
     child |-> "none", signals |-> <<>>, killed_alive |-> 0]

\* IngestWorker.start; spawn_ok = FALSE: Popen raises (ffmpeg missing, ...).
start(w, spawn_ok) ==
    IF w.process # NULL /\ w.child = "running" THEN w
    ELSE IF spawn_ok THEN [w EXCEPT !.process = Some("Popen"), !.child = "running"]
    ELSE [w EXCEPT !.stop_event = TRUE]

\* What the child does with SIGTERM: "exits" within the 5 s of wait(), "timeout"
\* (TimeoutExpired), or "gone": it ended and was reaped after poll(), getpgid
\* raises ProcessLookupError and Popen.kill() finds nothing to signal.
GraceOutcomes == {"exits", "timeout", "gone"}

\* IngestWorker.stop.  After TimeoutExpired, Popen.kill() sends SIGKILL and
\* returns; nothing waits for the child, which ends some time later.
StopKillsAtOnce(w, grace) ==
    LET s == [w EXCEPT !.stop_event = TRUE]
    IN  IF w.process # NULL /\ w.child = "running"
        THEN [s EXCEPT !.signals = IF grace = "gone" THEN @
                                   ELSE @ \o <<"SIGKILL to child">>,
                       !.child = "exited",
                       !.process = NULL]
        ELSE s

stop(w, grace) ==
    LET s == [w EXCEPT !.stop_event = TRUE]
    IN  IF w.process # NULL /\ w.child = "running"
        THEN [s EXCEPT !.signals = IF grace = "gone" THEN @
                                   ELSE IF grace = "exits" THEN @ \o <<"SIGTERM to group">>
                                   ELSE @ \o <<"SIGTERM to group", "SIGKILL to child">>,
                       !.killed_alive = IF grace = "timeout" THEN @ + 1 ELSE @,
                       !.child = "exited",
                       !.process = NULL]
        ELSE s

\* The names the standard module time defines, as far as the code uses them;
\* it has no attribute random (random() is in the module random).
TimeModuleAttrs == {"time", "sleep", "strftime"}

RESTART_CAP == 600
RestartJitters == {0, 2, 4}
\* backoff_time of check_and_restart, in seconds.
RestartBackoff(restart_count, jitter) == Min(2^restart_count, RESTART_CAP) + jitter

IngestFrame == <<core, backoff, cfg, syncVars, mqtt>>

\* IngestService.run_loop up to the loop: load_and_initialize, start_workers.
IngestRun(spawn) ==
    /\ ~ingest_running
    /\ ingest_workers' = [c \in IngestCameras |-> start(NewWorker, spawn[c])]
    /\ ingest_running' = TRUE
    /\ UNCHANGED IngestFrame

\* The segmenter of camera c ends by itself (stream lost, ffmpeg error).
ChildExits(c) ==
    /\ ingest_running
    /\ ingest_workers[c].child = "running"
    /\ ingest_workers' = [ingest_workers EXCEPT ![c].child = "exited"]
    /\ UNCHANGED <<IngestFrame, ingest_running>>

\* IngestService.shutdown.
shutdown(workers, grace) == [c \in DOMAIN workers |-> stop(workers[c], grace[c])]

\* IngestWorker.check_and_restart: the worker afterwards, and whether the call
\* raised.  Evaluating time.random raises AttributeError, before the sleep, the
\* count and start().
CheckAndRestartIgnoresStop(w, jitter, spawn_ok) ==
    IF w.process # NULL /\ w.child = "exited"
    THEN IF "random" \in TimeModuleAttrs
         THEN [worker |-> start([w EXCEPT !.waited = Some(RestartBackoff(w.restart_count, jitter)),
                                          !.restart_count = @ + 1], spawn_ok),
               raised |-> FALSE]
         ELSE [worker |-> w, raised |-> TRUE]
    ELSE IF w.process = NULL
    THEN [worker |-> start(w, spawn_ok), raised |-> FALSE]
    ELSE [worker |-> w, raised |-> FALSE]

check_and_restart(w, jitter, spawn_ok) ==
    IF w.stop_event THEN [worker |-> w, raised |-> FALSE]
    ELSE IF w.process # NULL /\ w.child = "exited"
    THEN IF "random" \in TimeModuleAttrs
         THEN [worker |-> start([w EXCEPT !.waited = Some(RestartBackoff(w.restart_count, jitter)),
                                          !.restart_count = @ + 1], spawn_ok),
               raised |-> FALSE]
         ELSE [worker |-> w, raised |-> TRUE]
    ELSE IF w.process = NULL
    THEN [worker |-> start(w, spawn_ok), raised |-> FALSE]
    ELSE [worker |-> w, raised |-> FALSE]

\* One worker.check_and_restart() of the monitor loop.  run_loop catches
\* KeyboardInterrupt only, so an exception of the call ends the loop through
\* finally: self.shutdown().
CheckAndRestart(c, jitter, spawn_ok, grace) ==
    /\ ingest_running
    /\ LET r == check_and_restart(ingest_workers[c], jitter, spawn_ok)
       IN  IF r.raised
           THEN /\ ingest_workers' = shutdown(ingest_workers, grace)
                /\ ingest_running' = FALSE
           ELSE /\ ingest_workers' = [ingest_workers EXCEPT ![c] = r.worker]
                /\ UNCHANGED ingest_running
    /\ UNCHANGED IngestFrame

\* A child that was sent SIGKILL ends.
KilledChildEnds(c) ==
    /\ c \in DOMAIN ingest_workers
    /\ ingest_workers[c].killed_alive > 0
    /\ ingest_workers' = [ingest_workers EXCEPT ![c].killed_alive = @ - 1]
    /\ UNCHANGED <<IngestFrame, ingest_running>>

\* The methods of an IngestWorker called directly, in any order.
WorkerCameras == {1, 2}

WorkerStart(c, spawn_ok) ==
    /\ ingest_workers' = [ingest_workers EXCEPT ![c] = start(@, spawn_ok)]
    /\ UNCHANGED <<IngestFrame, ingest_running>>

WorkerStop(c, grace) ==
    /\ Len(ingest_workers[c].signals) < MaxSignals
    /\ ingest_workers' = [ingest_workers EXCEPT ![c] = stop(@, grace)]
    /\ UNCHANGED <<IngestFrame, ingest_running>>

WorkerCheckAndRestart(c, jitter, spawn_ok) ==
    /\ ingest_workers' =
          [ingest_workers EXCEPT ![c] = check_and_restart(@, jitter, spawn_ok).worker]
    /\ UNCHANGED <<IngestFrame, ingest_running>>

\* KeyboardInterrupt in run_loop: finally self.shutdown().
Shutdown(grace) ==
    /\ ingest_running
    /\ ingest_workers' = shutdown(ingest_workers, grace)
    /\ ingest_running' = FALSE
    /\ UNCHANGED IngestFrame

\* ---------------------------------------------------------------- MQTT client
\* Messages the broker delivers: the topic, whether the payload parses as JSON,
\* and the keys the handler reads (NULL: key absent).
ControlMessages ==
    [topic : {"control", "other"}, json : BOOLEAN,
     action : {NULL, Some("request_clip"), Some("reboot")},
     camera_id : {NULL, Some("cam-01")},
     from : {NULL, Some(0), Some(10)},
     to : {NULL, Some(20)},
     request_id : {NULL, Some(""), Some("req-1")}]

\* Python truth of message.get(key): None, 0 and "" are false.
TruthyNum(x) == x # NULL /\ x[1] # 0
TruthyStr(x) == x # NULL /\ x[1] # ""

\* _handle_control_message: what the handler does with the message.
handle_control_message(m) ==
    IF m.action = Some("request_clip")
    THEN IF /\ TruthyStr(m.camera_id) /\ TruthyNum(m.from)
            /\ TruthyNum(m.to) /\ TruthyStr(m.request_id)
         THEN "logged"
         ELSE "invalid"
    ELSE "unknown_action"

\* MQTTClient._on_message.  extract_clip: the clip extractions requested from
\* the ingest supervisor; submitted: the events handed to the aggregator.  The
\* handler writes a log line and calls neither.
OnMessage(m) ==
    /\ mqtt' = [mqtt EXCEPT
                  !.last = Some(m),
                  !.outcome = IF ~m.json THEN "non_json"
                              ELSE IF m.topic # "control" THEN "ignored"
                              ELSE handle_control_message(m)]
    /\ UNCHANGED <<core, backoff, cfg, syncVars, ingestVars>>

\* ---------------------------------------------------------------- Configuration
CameraIdValues == {"cam-a", "cam-b", "cam-c"}
\* nvr_list as far as the validator reads it: for each NVR the ids of its
\* cameras, in order.  All other fields are taken to be valid.
NvrLists == SeqsUpTo(SeqsUpTo(CameraIdValues, MaxCamerasPerNvr), MaxNvrs)

\* The loop over one NVR's cameras in check_unique_camera_ids: the set of ids
\* seen so far, and the id that raised (NULL when none did).
RECURSIVE ScanCameras(_, _, _)
ScanCameras(cameras, i, seen) ==
    IF i > Len(cameras) THEN [seen |-> seen, raised |-> NULL]
    ELSE IF cameras[i] \in seen THEN [seen |-> seen, raised |-> Some(cameras[i])]
    ELSE ScanCameras(cameras, i + 1, seen \cup {cameras[i]})

\* EdgeConfig.check_unique_camera_ids: NULL when it returns v, else the id of
\* the ValueError.
RECURSIVE CheckUniquePerNvr(_, _, _)
CheckUniquePerNvr(v, n, all_camera_ids) ==
    IF n > Len(v) THEN NULL
    ELSE LET r == ScanCameras(v[n], 1, {})
         IN  IF r.raised # NULL THEN r.raised
             ELSE CheckUniquePerNvr(v, n + 1, r.seen)

RECURSIVE check_unique_camera_ids(_, _, _)
check_unique_camera_ids(v, n, all_camera_ids) ==
    IF n > Len(v) THEN NULL
    ELSE LET r == ScanCameras(v[n], 1, all_camera_ids)
         IN  IF r.raised # NULL THEN r.raised
             ELSE check_unique_camera_ids(v, n + 1, r.seen)

\* load_edge_config for a file that parses and passes the schema: the
\* EdgeConfig, or the ValueError built from the pydantic errors; the message
\* is kept as its pieces.
load_edge_config(nvr_list) ==
    LET dup == check_unique_camera_ids(nvr_list, 1, {})
    IN  IF dup = NULL
        THEN [accepted |-> TRUE, message |-> <<>>]
        ELSE [accepted |-> FALSE,
              message  |-> <<"Pydantic validation failed:\n", "Field 'nvr_list': ",
                             "Value error, Duplicate camera ID found: ", dup[1]>>]

LoadEdgeConfig ==
    /\ cfg.result = NULL
    /\ cfg' = [cfg EXCEPT !.result = Some(load_edge_config(cfg.nvr_list))]
    /\ UNCHANGED <<core, backoff, syncVars, ingestVars, mqtt>>

\* ---------------------------------------------------------------- specifications
InitStore ==
    /\ events = <<>>
    /\ uploads = <<>>
    /\ clips = {}
    /\ max_retries \in MaxRetriesValues
    /\ pc = [w \in Workers |-> "idle"]
    /\ batch = [w \in Workers |-> {}]
    /\ cur = [w \in Workers |-> NoUpload]
    /\ txn = [w \in Workers |-> NoTxn]
    /\ client_failed = {}
    /\ marks = 0
    /\ reply = NoReply
    /\ killed = "no"

\* The other services before they have done anything.
BackoffIdle == backoff = NoBackoff
ConfigIdle == cfg = NoCfg
SyncIdle ==
    /\ sync = NoSync
    /\ model_dir = [p \in PackageIds |-> NoInstall]
    /\ staging = {}
    /\ reloads = {}
    /\ kb_meta = {}
    /\ clock = 0
    /\ kb_last = NULL
    /\ cv_model_version = MockVersion
IngestIdle ==
    /\ ingest_workers = <<>>
    /\ ingest_running = FALSE
MqttIdle == mqtt = NoMqtt

Init ==
    /\ InitStore
    /\ BackoffIdle /\ ConfigIdle /\ SyncIdle /\ IngestIdle /\ MqttIdle

UploaderStep(w) ==
    \/ GetPending(w)
    \/ ProcessMissingFile(w)
    \/ ProcessBegin(w)
    \/ \E body \in PresignBodies(cur[w].event_id) : PresignOk(w, body)
    \/ \E body \in PresignBodies(cur[w].event_id) : PresignMalformed(w, body)
    \/ PutOk(w)
    \/ CompleteOk(w)
    \/ MetadataOk(w)
    \/ \E o \in HttpErrors : RequestFails(w, o)
    \/ BackoffDone(w)

\* The program as shipped: the Aggregator and one Uploader process on one store.
Next ==
    \/ \E e \in EventIds, has_clip \in BOOLEAN : InsertEvent(e, has_clip)
    \/ \E update \in StatusUpdate : MarkStatus(update)
    \/ \E w \in SingleUploader : UploaderStep(w)
    \/ \E w \in SingleUploader : Crash(w)

Spec == Init /\ [][Next]_vars

\* Two Uploader processes draining the same store, which holds the row of one
\* event; the retry budget is the largest the configs carry.
InitTwoUploaders ==
    /\ Init
    /\ max_retries = MaxRetriesCfg

NextTwoUploaders ==
    \/ \E has_clip \in BOOLEAN : InsertEvent(MaxEvents, has_clip)
    \/ \E w \in Workers : UploaderStep(w)

SpecTwoUploaders == InitTwoUploaders /\ [][NextTwoUploaders]_vars


\* One Uploader that is killed once and restarted against a central server that
\* answers every request with success from then on; before the kill a request
\* may fail.  run_loop polls for ever and the server answers, so the Uploader's
\* steps are taken whenever they stay possible.
RestartStep(w) ==
    \/ GetPending(w)
    \/ ProcessMissingFile(w)
    \/ ProcessBegin(w)
    \/ \E body \in PresignBodies(cur[w].event_id) : PresignOk(w, body)
    \/ PutOk(w)
    \/ CompleteOk(w)
    \/ MetadataOk(w)
    \/ BackoffDone(w)
    \/ killed = "no" /\ \E o \in HttpErrors : RequestFails(w, o)

NextRestart ==
    \/ \E e \in EventIds, has_clip \in BOOLEAN : InsertEvent(e, has_clip)
    \/ \E w \in SingleUploader : RestartStep(w)
    \/ \E w \in SingleUploader : Kill(w)

SpecRestart ==
    /\ Init
    /\ [][NextRestart]_vars
    /\ WF_vars(\E w \in SingleUploader : RestartStep(w))

\* The Aggregator's POST /events/new and direct callers of insert_event (first
\* calls, replays, calls cut short) beside one running Uploader.
NextAggregator ==
    \/ \E e \in EventIds, has_clip \in BOOLEAN : CreateNewEvent(e, has_clip)
    \/ \E e \in EventIds, has_clip \in BOOLEAN : InsertEvent(e, has_clip)
    \/ \E e \in EventIds : InsertEventDuplicate(e)
    \/ \E e \in EventIds : InsertEventAborted(e)
    \/ \E w \in SingleUploader : UploaderStep(w)

SpecAggregator == Init /\ [][NextAggregator]_vars

\* The retry sleep of _handle_failure as a function of its inputs: every base,
\* attempt number and jitter of the bounded sets, then the computation.
InitQuiet ==
    /\ InitStore
    /\ max_retries = MaxRetriesCfg

InitBackoff ==
    /\ InitQuiet
    /\ \E B \in BackoffBases, n \in 1..MaxAttemptN :
          \E j \in Jitters(B) :
             backoff = [B |-> B, n |-> n, jitter |-> j, wait_time |-> NULL]
    /\ ConfigIdle /\ SyncIdle /\ IngestIdle /\ MqttIdle

ComputeBackoff ==
    /\ backoff.wait_time = NULL
    /\ backoff' = [backoff EXCEPT
                     !.wait_time = Some(BackoffSleep(backoff.B, backoff.n, backoff.jitter))]
    /\ UNCHANGED <<core, cfg, syncVars, ingestVars, mqtt>>

SpecBackoff == InitBackoff /\ [][ComputeBackoff]_vars

InitSync ==
    /\ InitQuiet
    /\ BackoffIdle /\ ConfigIdle /\ SyncIdle /\ IngestIdle /\ MqttIdle

\* Package installs; the KB manifest offers nothing new.
NextSync ==
    \/ \E resp \in PackageResponses : PollPackages(resp)
    \/ \E o \in PackageOutcomes : ProcessPackage(o)
    \/ \E m \in QuietKbManifests : PollKbManifest(m)
    \/ TickSleep
    \/ SyncRestart

SpecSync == InitSync /\ [][NextSync]_vars

\* KB versions; the packages endpoint offers nothing.
NextKb ==
    \/ \E resp \in {NULL, Some(<<>>)} : PollPackages(resp)
    \/ \E m \in KbManifests : PollKbManifest(m)
    \/ TickSleep
    \/ SyncRestart
    \/ ClockSetBack

SpecKb == InitSync /\ [][NextKb]_vars

NextIngest ==
    \/ \E spawn \in [IngestCameras -> BOOLEAN] : IngestRun(spawn)
    \/ \E c \in IngestCameras : ChildExits(c)
    \/ \E c \in IngestCameras, jitter \in RestartJitters, spawn_ok \in BOOLEAN,
          grace \in [IngestCameras -> GraceOutcomes] :
            CheckAndRestart(c, jitter, spawn_ok, grace)
    \/ \E grace \in [IngestCameras -> GraceOutcomes] : Shutdown(grace)
    \/ \E c \in IngestCameras : KilledChildEnds(c)

SpecIngest == InitSync /\ [][NextIngest]_vars

\* IngestWorker objects and their callers: start, stop and check_and_restart in any
\* order, while its children end on their own or after SIGKILL.
InitWorker ==
    /\ InitQuiet
    /\ BackoffIdle /\ ConfigIdle /\ SyncIdle /\ MqttIdle
    /\ ingest_workers = [c \in WorkerCameras |-> NewWorker]
    /\ ingest_running = TRUE

NextWorker ==
    \/ \E c \in WorkerCameras, spawn_ok \in BOOLEAN : WorkerStart(c, spawn_ok)
    \/ \E c \in WorkerCameras, grace \in GraceOutcomes : WorkerStop(c, grace)
    \/ \E c \in WorkerCameras, jitter \in RestartJitters, spawn_ok \in BOOLEAN :
          WorkerCheckAndRestart(c, jitter, spawn_ok)
    \/ \E c \in WorkerCameras : ChildExits(c)
    \/ \E c \in WorkerCameras : KilledChildEnds(c)

SpecWorker == InitWorker /\ [][NextWorker]_vars

\* The Uploader loop left to run: events come in, nothing crashes, nobody else
\* writes statuses, and every Uploader step that can be taken is taken in the end.
NextLive ==
    \/ \E e \in EventIds, has_clip \in BOOLEAN : CreateNewEvent(e, has_clip)
    \/ \E e \in EventIds, has_clip \in BOOLEAN : InsertEvent(e, has_clip)
    \/ \E w \in SingleUploader : UploaderStep(w)

SpecLive ==
    Init /\ [][NextLive]_vars /\ WF_vars(\E w \in SingleUploader : UploaderStep(w))

InitUpdateStatus ==
    /\ \E st \in StoreStates : events = EventsOf(st) /\ uploads = UploadsOf(st)
    /\ clips = {}
    /\ max_retries = MaxRetriesCfg
    /\ pc = [w \in Workers |-> "idle"]
    /\ batch = [w \in Workers |-> {}]
    /\ cur = [w \in Workers |-> NoUpload]
    /\ txn = [w \in Workers |-> NoTxn]
    /\ client_failed = {}
    /\ marks = 0
    /\ reply = NoReply
    /\ killed = "no"
    /\ BackoffIdle /\ ConfigIdle /\ SyncIdle /\ IngestIdle /\ MqttIdle

NextUpdateStatus ==
    \E upload_id \in UpdateIds, status \in Terminal \cup NonTerminal, kwargs \in UpdateKwargs :
        UpdateUploadStatus(upload_id, status, kwargs)

SpecUpdateStatus == InitUpdateStatus /\ [][NextUpdateStatus]_vars

InitConfig ==
    /\ InitQuiet
    /\ BackoffIdle /\ SyncIdle /\ IngestIdle /\ MqttIdle
    /\ \E l \in NvrLists : cfg = [nvr_list |-> l, result |-> NULL]

SpecConfig == InitConfig /\ [][LoadEdgeConfig]_vars

NextMqtt == \E m \in ControlMessages : OnMessage(m)

SpecMqtt == InitSync /\ [][NextMqtt]_vars

\* ---------------------------------------------------------------- claims
RowsOf(e) == {id \in DOMAIN uploads : uploads[id].event_id = e}

\* C1: when process_upload runs on a picked-up row whose clip exists and the
\* server answers success to presign, PUT, complete and metadata (with or
\* without a server-chosen upload_id), the row ends UPLOADED, its Event ends
\* UPLOADED and the row's checksum and final_url are non-null.  Stated for
\* transactions no mark_status request interfered with.
C1_SuccessEndsUploaded ==
    [][\A w \in Workers :
        (MetadataOk(w) /\ marks = 0) =>
            LET id == cur[w].upload_id
            IN  /\ uploads'[id].status = "UPLOADED"
                /\ events'[cur[w].event_id].status = "UPLOADED"
                /\ uploads'[id].checksum # NULL
                /\ uploads'[id].final_url # NULL]_vars

\* C2: two Uploader workers never execute the upload protocol for the same
\* upload_id at the same time (the row lease).
C2_RowLease ==
    \A w1, w2 \in Workers :
        (w1 # w2 /\ pc[w1] \in HttpSteps /\ pc[w2] \in HttpSteps)
            => cur[w1].upload_id # cur[w2].upload_id

\* C3: every Event with status UPLOADED has exactly one PendingUpload row of its
\* event_id with status UPLOADED, and that row's final_url and checksum are
\* non-null.
C3_UploadedEventHasUploadedRow ==
    \A e \in DOMAIN events :
        events[e].status = "UPLOADED" =>
            /\ Cardinality({id \in RowsOf(e) : uploads[id].status = "UPLOADED"}) = 1
            /\ \A id \in RowsOf(e) :
                   uploads[id].status = "UPLOADED" =>
                       uploads[id].final_url # NULL /\ uploads[id].checksum # NULL

\* C4: every Event with status PENDING_UPLOAD has exactly one PendingUpload row
\* of its event_id, and that row is PENDING_UPLOAD or PROCESSING.
C4_PendingEventHasLiveRow ==
    \A e \in DOMAIN events :
        events[e].status = "PENDING_UPLOAD" =>
            /\ Cardinality(RowsOf(e)) = 1
            /\ \A id \in RowsOf(e) : uploads[id].status \in NonTerminal

\* An Event still PENDING_UPLOAD whose row is PROCESSING again after a retry.
C4_Witness ==
    \E e \in DOMAIN events :
        /\ events[e].status = "PENDING_UPLOAD"
        /\ marks = 0
        /\ \E id \in RowsOf(e) : uploads[id].status = "PROCESSING" /\ uploads[id].attempts >= 1

\* C5: no step changes an Event whose status is UPLOADED or FAILED to
\* PENDING_UPLOAD (nor removes it).
C5_TerminalEventStaysTerminal ==
    [][\A e \in DOMAIN events :
        events[e].status \in Terminal =>
            e \in DOMAIN events' /\ events'[e].status # "PENDING_UPLOAD"]_vars

\* A row written back to PENDING_UPLOAD while its Event is already terminal.
C5_Witness ==
    \E id \in DOMAIN uploads :
        /\ uploads[id].status = "PENDING_UPLOAD"
        /\ events[uploads[id].event_id].status \in Terminal

\* C6: the stored attempts of an upload_id never decreases.
C6_AttemptsNeverDecrease ==
    [][\A id \in DOMAIN uploads :
        id \in DOMAIN uploads' /\ uploads'[id].attempts >= uploads[id].attempts]_vars

\* C7: once a row's checksum is non-null, no step changes or clears it.
C7_ChecksumSetOnce ==
    [][\A id \in DOMAIN uploads :
        uploads[id].checksum # NULL =>
            id \in DOMAIN uploads' /\ uploads'[id].checksum = uploads[id].checksum]_vars

\* C8: attempts <= max_retries + 1 for every row, in every reachable state.
C8_AttemptsBounded ==
    \A id \in DOMAIN uploads : uploads[id].attempts <= max_retries + 1

\* C9: a transaction whose failing step answers 5xx or fails at transport level
\* stores attempts = (attempts read at pick-up) + 1; when that value is below
\* max_retries the row is untouched during the backoff sleep and is then written
\* PENDING_UPLOAD, where get_pending_uploads returns it again; otherwise the row
\* is written FAILED at once.
C9_RetryableFailure ==
    [][\A w \in Workers :
        pc'[w] # pc[w] =>
            LET id == cur[w].upload_id
                n  == cur[w].attempts + 1
            IN  /\ \A o \in {x \in HttpErrors : x = 0 \/ (x >= 500 /\ x <= 599)} :
                    RequestFails(w, o) =>
                        IF n < max_retries
                        THEN pc'[w] = "backoff" /\ uploads' = uploads /\ events' = events
                        ELSE /\ pc'[w] = "idle"
                             /\ uploads'[id].status = "FAILED"
                             /\ uploads'[id].attempts = n
                /\ BackoffDone(w) =>
                    /\ n < max_retries
                    /\ uploads'[id].status = "PENDING_UPLOAD"
                    /\ uploads'[id].attempts = n
                    /\ \E S \in get_pending_uploads(UPLOADER_LIMIT)' :
                           \E u \in S : u.upload_id = id /\ u.attempts = n]_vars

\* A row that was retried (written back to PENDING_UPLOAD, picked up again) and
\* then failed for good on exhausting max_retries >= 2, with no 4xx answer and no
\* mark_status request involved.
C9_Witness ==
    \E id \in DOMAIN uploads :
        /\ marks = 0
        /\ id \notin client_failed
        /\ uploads[id].status = "FAILED"
        /\ uploads[id].attempts >= 2
        /\ uploads[id].attempts = max_retries

\* C10: a transaction whose failing step answers 4xx writes the row FAILED and
\* its Event FAILED without a backoff sleep, and that row is never again in a
\* batch, in process_upload or PENDING_UPLOAD.
C10_ClientErrorIsPermanent ==
    /\ [][\A w \in Workers :
            pc'[w] # pc[w] =>
                \A o \in {x \in HttpErrors : x >= 400 /\ x <= 499} :
                    RequestFails(w, o) =>
                        /\ pc'[w] # "backoff"
                        /\ uploads'[cur[w].upload_id].status = "FAILED"
                        /\ events'[cur[w].event_id].status = "FAILED"]_vars
    /\ [](\A id \in client_failed :
            /\ uploads[id].status # "PENDING_UPLOAD"
            /\ \A w \in Workers :
                   /\ cur[w].upload_id # id
                   /\ \A u \in batch[w] : u.upload_id # id)

\* A row failed on a 4xx answer with retries left (attempts below max_retries).
C10_Witness ==
    \E id \in client_failed :
        /\ uploads[id].status = "FAILED"
        /\ uploads[id].attempts < max_retries
        /\ events[uploads[id].event_id].status = "FAILED"

\* C11: when the clip file of a picked-up row does not exist, process_upload
\* writes the row FAILED and its Event FAILED in that same step, leaves attempts
\* as stored, issues no request (the Uploader is back between two rows, nothing
\* on the wire, no backoff sleep) and the row is not returned by
\* get_pending_uploads afterwards.
C11_MissingFileFailsAtOnce ==
    [][\A w \in Workers :
        ProcessMissingFile(w) =>
            \A u \in batch[w] \ batch'[w] :
                /\ u.event_id \notin clips
                /\ uploads'[u.upload_id].status = "FAILED"
                /\ events'[u.event_id].status = "FAILED"
                /\ uploads'[u.upload_id].attempts = uploads[u.upload_id].attempts
                /\ pc'[w] = "idle"
                /\ cur'[w] = NoUpload
                /\ \A S \in get_pending_uploads(UPLOADER_LIMIT)' :
                       \A v \in S : v.upload_id # u.upload_id]_vars

\* A row failed for a missing clip: FAILED with no attempt counted and no
\* checksum, its Event FAILED, no mark_status request involved.
C11_Witness ==
    \E id \in DOMAIN uploads :
        /\ marks = 0
        /\ uploads[id].event_id \notin clips
        /\ uploads[id].status = "FAILED"
        /\ uploads[id].attempts = 0
        /\ uploads[id].checksum = NULL
        /\ events[uploads[id].event_id].status = "FAILED"

\* C12: a 2xx presign answer that lacks upload_url or final_url sends the row
\* to FAILED in that transaction, with no backoff sleep and no retry.
C12_MalformedPresignIsPermanent ==
    [][\A w \in Workers :
        pc[w] = "presign" =>
            \A body \in PresignBodies(cur[w].event_id) :
                PresignMalformed(w, body) =>
                    /\ pc'[w] = "idle"
                    /\ uploads'[cur[w].upload_id].status = "FAILED"
                    /\ events'[cur[w].event_id].status = "FAILED"]_vars

\* C13: once a presign answer has named a server-chosen upload_id different
\* from the local one, the Store holds the picked-up row under that id (same
\* event, PROCESSING) and the upload_complete and metadata payloads carry it.
C13_ServerUploadIdReplacesLocal ==
    \A w \in Workers :
        (/\ pc[w] \in {"put", "complete", "metadata"}
         /\ marks = 0
         /\ txn[w].upload_id # Some(cur[w].upload_id)) =>
            LET id == txn[w].upload_id[1]
            IN  /\ id \in DOMAIN uploads
                /\ uploads[id].event_id = cur[w].event_id
                /\ uploads[id].status = "PROCESSING"
                /\ CompleteRequest(w).upload_id = id
                /\ MetadataRequest(w).upload_id = id

\* C14: every request of a transaction carries the event_id of the row as
\* stored, and every request that has an upload_id field and is sent after a
\* presign answer named an upload_id carries that upload_id.
C14_SameIdsOnEveryRequest ==
    \A w \in Workers :
        /\ pc[w] \in HttpSteps =>
               PresignRequest(w).event_id = uploads[cur[w].upload_id].event_id
        /\ pc[w] = "complete" =>
               /\ CompleteRequest(w).event_id = PresignRequest(w).event_id
               /\ Some(CompleteRequest(w).upload_id) = txn[w].upload_id
        /\ pc[w] = "metadata" =>
               /\ MetadataRequest(w).event_id = PresignRequest(w).event_id
               /\ Some(MetadataRequest(w).upload_id) = txn[w].upload_id

\* C15: within one transaction a request is issued only on the success of the
\* step before it, in the order presign, PUT, complete, metadata; a transaction
\* starts at presign, from between two rows, so no step is issued twice.
C15_StepsInOrder ==
    [][\A w \in Workers :
        (pc'[w] # pc[w] /\ pc'[w] \in HttpSteps) =>
            \/ pc'[w] = "presign" /\ pc[w] = "idle" /\ ProcessBegin(w)
            \/ pc'[w] = "put" /\ pc[w] = "presign"
                  /\ \E body \in PresignBodies(cur[w].event_id) : PresignOk(w, body)
            \/ pc'[w] = "complete" /\ pc[w] = "put" /\ PutOk(w)
            \/ pc'[w] = "metadata" /\ pc[w] = "complete" /\ CompleteOk(w)]_vars

\* A transaction that has issued all four requests: metadata is on the wire.
C15_Witness ==
    \E w \in Workers :
        /\ pc[w] = "metadata"
        /\ marks = 0
        /\ txn[w].final_url # NULL

\* C16: after the Uploader was killed and restarted, a row the killed process
\* left in PROCESSING (no running transaction holds it) is eventually back in
\* PENDING_UPLOAD.
C16_ProcessingRowsRecovered ==
    \A e \in EventIds :
        []((/\ killed # "no"
            /\ LocalUploadId(e) \in DOMAIN uploads
            /\ uploads[LocalUploadId(e)].status = "PROCESSING"
            /\ \A w \in Workers : cur[w].upload_id # LocalUploadId(e))
           => <>(/\ LocalUploadId(e) \in DOMAIN uploads
                 /\ uploads[LocalUploadId(e)].status = "PENDING_UPLOAD"))

\* C17: when the Uploader was killed with the PUT done and complete not yet
\* answered, and the server answers success after the restart, eventually
\* exactly one row of the event is UPLOADED, with a final_url, and the Event is
\* UPLOADED.
C17_KillAfterPutEndsUploaded ==
    \A e \in EventIds :
        []((killed = "complete" /\ e \in DOMAIN events /\ e \in clips)
           => <>(/\ Cardinality({id \in RowsOf(e) : uploads[id].status = "UPLOADED"}) = 1
                 /\ \A id \in RowsOf(e) :
                        uploads[id].status = "UPLOADED" => uploads[id].final_url # NULL
                 /\ events[e].status = "UPLOADED"))

\* C18: insert_event called with an event_id the store already has, whatever
\* the status of its rows, leaves both tables as they are and raises; an
\* event never has more or fewer than its one PendingUpload row, so nothing new
\* is there to be picked up.
C18_ReplayedInsertRejected ==
    /\ [][\A e \in EventIds :
            InsertEventDuplicate(e) =>
                /\ events' = events
                /\ uploads' = uploads
                /\ reply'.result = "IntegrityError"
                /\ get_pending_uploads(UPLOADER_LIMIT)' = get_pending_uploads(UPLOADER_LIMIT)]_vars
    /\ [](\A e \in DOMAIN events : Cardinality(RowsOf(e)) = 1)

\* A replay rejected after the first insert of the event had reached UPLOADED.
C18_Witness ==
    \E e \in DOMAIN events :
        /\ reply.result = "IntegrityError"
        /\ events[e].status = "UPLOADED"
        /\ uploads[LocalUploadId(e)].status = "UPLOADED"

\* C19: in every state an event_id has its Event row exactly when it has its
\* PendingUpload row, also after an insert_event call that was cut short, and
\* both rows are PENDING_UPLOAD when they appear.
C19_InsertAtomic ==
    /\ [](\A e \in EventIds :
            /\ e \in DOMAIN events <=> LocalUploadId(e) \in DOMAIN uploads
            /\ e \in DOMAIN events => uploads[LocalUploadId(e)].event_id = e)
    /\ [][\A e \in EventIds :
            (e \notin DOMAIN events /\ e \in DOMAIN events') =>
                /\ events'[e].status = "PENDING_UPLOAD"
                /\ LocalUploadId(e) \notin DOMAIN uploads
                /\ uploads'[LocalUploadId(e)].status = "PENDING_UPLOAD"]_vars

\* An insert_event call was cut short while the store holds the two rows of an
\* earlier, completed call.
C19_Witness ==
    /\ reply.result = "aborted"
    /\ \E e \in DOMAIN events :
           /\ LocalUploadId(e) \in DOMAIN uploads
           /\ uploads[LocalUploadId(e)].event_id = e

\* C20: a well-formed POST /events/new whose event_id is new is answered 201
\* and has added one Event and one PendingUpload, both PENDING_UPLOAD.
C20_NewEventAnswered201 ==
    [][\A e \in EventIds, has_clip \in BOOLEAN :
        (e \notin DOMAIN events /\ CreateNewEvent(e, has_clip)) =>
            /\ reply'.result = "201"
            /\ events'[e].status = "PENDING_UPLOAD"
            /\ uploads'[LocalUploadId(e)].status = "PENDING_UPLOAD"]_vars

\* C21 (as stated): for every base B >= 1 and attempt n >= 1 the retry sleep
\* lies between B and min(B*2^(n-1) + B, 3600) seconds.
C21_BackoffBounds ==
    backoff.wait_time # NULL =>
        /\ backoff.B * MS <= backoff.wait_time[1]
        /\ backoff.wait_time[1] <=
               Min(backoff.B * MS * 2^(backoff.n - 1) + backoff.B * MS, BACKOFF_CAP * MS)

\* C21 (amended): for every base B >= 1 and attempt n >= 1 the retry sleep
\* lies between min(B, 3600) and min(B*2^(n-1) + B, 3600) seconds.
C21_BackoffBoundsCapped ==
    backoff.wait_time # NULL =>
        /\ Min(backoff.B, BACKOFF_CAP) * MS <= backoff.wait_time[1]
        /\ backoff.wait_time[1] <=
               Min(backoff.B * MS * 2^(backoff.n - 1) + backoff.B * MS, BACKOFF_CAP * MS)

\* A sleep computed for a base above one hour, cut to the cap.
C21_Witness ==
    /\ backoff.wait_time = Some(BACKOFF_CAP * MS)
    /\ backoff.B > BACKOFF_CAP
    /\ backoff.n >= 2

\* ---------------------------------------------------------------- sync claims
InstallFails(o) ==
    \/ o.download # "ok"
    \/ ~o.sha_ok
    \/ ~o.sig_ok
    \/ o.extract # "ok"
    \/ o.reload # "ok"

FullInstall(version) == [exists |-> TRUE, files |-> [k \in ArchiveFiles |-> version]]

\* C22: package installation is a transaction: when download, checksum,
\* signature, extraction or reload fails and _process_package returns, the
\* model directory is as before the attempt, the staging archive is gone, and
\* (unless the reload itself was what failed) no reload was requested.
C22_FailedInstallLeavesNoTrace ==
    [][\A o \in PackageOutcomes :
         (/\ sync.pc = "packages"
          /\ Head(sync.queue).complete
          /\ InstallFails(o)
          /\ ProcessPackage(o)
          /\ sync'.pc # "dead")
         => /\ model_dir' = model_dir
            /\ ArchiveOf(Head(sync.queue)) \notin staging'
            /\ (\/ (o.download = "ok" /\ o.sha_ok /\ o.sig_ok /\ o.extract = "ok")
                \/ reloads' = reloads)]_vars

\* C23: when the SHA-256 of the downloaded archive differs from the manifest's,
\* the staging file is removed, the model directory is unchanged and no reload
\* is requested; a matching package of a later attempt is installed: its files
\* are in the model directory, the reload was requested, the staging file is gone.
C23_ShaMismatchRejected ==
    [][\A o \in PackageOutcomes :
         (sync.pc = "packages" /\ Head(sync.queue).complete /\ ProcessPackage(o))
         => LET pkg == Head(sync.queue)
            IN  /\ (o.download = "ok" /\ ~o.sha_ok)
                      => /\ ArchiveOf(pkg) \notin staging'
                         /\ model_dir' = model_dir
                         /\ reloads' = reloads
                /\ (/\ <<pkg.id, "mismatch">> \in sync.sha_history
                    /\ o.download = "ok" /\ o.sha_ok /\ o.sig_ok
                    /\ o.extract = "ok" /\ o.reload = "ok")
                      => /\ model_dir'[pkg.id] = FullInstall(pkg.version)
                         /\ pkg.version \in reloads'
                         /\ ArchiveOf(pkg) \notin staging']_vars

C23_Witness ==
    /\ <<"detector", "installed">> \in sync.sha_history
    /\ \E v \in PkgVersions : model_dir["detector"] = FullInstall(v) /\ reloads = {v}
    /\ staging = {}

\* C24: a package whose signature does not verify is never extracted into the
\* model directory and never triggers a reload, and its staging file is deleted.
C24_BadSignatureNeverInstalled ==
    [][\A o \in PackageOutcomes :
         (/\ sync.pc = "packages"
          /\ Head(sync.queue).complete
          /\ o.download = "ok" /\ o.sha_ok /\ ~o.sig_ok
          /\ ProcessPackage(o))
         => /\ model_dir' = model_dir
            /\ reloads' = reloads
            /\ ArchiveOf(Head(sync.queue)) \notin staging']_vars

\* C26 (sync part): within a tick a package that fails at download, checksum,
\* extraction or reload is followed by the next package of the response, or,
\* when it was the last one, by the KB manifest step.
C26_FailureDoesNotStopTheTick ==
    [][\A o \in PackageOutcomes :
         (/\ sync.pc = "packages"
          /\ Head(sync.queue).complete
          /\ InstallFails(o)
          /\ ProcessPackage(o))
         => /\ sync'.queue = Tail(sync.queue)
            /\ sync'.pc = IF Len(sync.queue) = 1 THEN "kb" ELSE "packages"]_vars

\* C25: in every reachable state, restarts of the sync worker included, the
\* current KB version the store returns is the version of the last recorded
\* KBMeta row, and "0.0.0" when none was recorded; and a tick records a
\* version only when the manifest's kb_version differs from the current one.
C25_CurrentKbVersionIsLastRecorded ==
    /\ get_last_kb_version(kb_meta) = {IF kb_last = NULL THEN "0.0.0" ELSE kb_last[1]}
    /\ \A r \in kb_meta : r.id > 1 =>
          \E q \in kb_meta : q.id = r.id - 1 /\ q.kb_version # r.kb_version

\* ---------------------------------------------------------------- ingest claims
\* C27: whenever the monitor finds that a camera's segmenter has exited and the
\* worker was not stopped, restart_count grows by one and a new segmenter for
\* that camera is started.
C27_ExitedSegmenterRestarted ==
    [][\A c \in IngestCameras, jitter \in RestartJitters,
          grace \in [IngestCameras -> GraceOutcomes] :
         (/\ ingest_running
          /\ ~ingest_workers[c].stop_event
          /\ ingest_workers[c].process # NULL
          /\ ingest_workers[c].child = "exited"
          /\ CheckAndRestart(c, jitter, TRUE, grace))
         => /\ ingest_workers'[c].restart_count = ingest_workers[c].restart_count + 1
            /\ ingest_workers'[c].waited = Some(RestartBackoff(ingest_workers'[c].restart_count, jitter))
            /\ ingest_workers'[c].child = "running"]_vars

\* C28: stopping a running segmenter sends SIGTERM to the child's process group
\* first and SIGKILL only afterwards, when the child did not exit within the
\* grace period; when stop() has returned the worker holds no process.
C28_StopTermThenKill ==
    [][\A grace \in [IngestCameras -> GraceOutcomes] :
         (ingest_running /\ Shutdown(grace))
         => \A c \in IngestCameras :
              (ingest_workers[c].process # NULL /\ ingest_workers[c].child = "running")
              => LET sent == SubSeq(ingest_workers'[c].signals,
                                    Len(ingest_workers[c].signals) + 1,
                                    Len(ingest_workers'[c].signals))
                 IN  /\ ingest_workers'[c].process = NULL
                     /\ ingest_workers'[c].stop_event
                     /\ grace[c] = "exits" => sent = <<"SIGTERM to group">>
                     /\ grace[c] = "timeout" => sent = <<"SIGTERM to group", "SIGKILL to child">>
                     /\ sent # <<>> => sent[1] = "SIGTERM to group"]_vars

C28_Witness ==
    /\ ~ingest_running
    /\ \E c \in IngestCameras :
         /\ ingest_workers # <<>>
         /\ ingest_workers[c].signals = <<"SIGTERM to group", "SIGKILL to child">>
         /\ ingest_workers[c].process = NULL
    /\ \E c \in IngestCameras : ingest_workers[c].signals = <<"SIGTERM to group">>

\* ---------------------------------------------------------------- MQTT claims
\* C29: every well-formed request_clip message on the control topic (camera_id,
\* from, to and request_id all present) leads to one clip extraction for
\* (camera_id, from, to) and to the submission of the clip as a new event.
C29_RequestClipExtractsAndSubmits ==
    [][\A m \in ControlMessages :
         (/\ m.json /\ m.topic = "control" /\ m.action = Some("request_clip")
          /\ TruthyStr(m.camera_id) /\ TruthyNum(m.from)
          /\ TruthyNum(m.to) /\ TruthyStr(m.request_id)
          /\ OnMessage(m))
         => /\ <<m.camera_id[1], m.from[1], m.to[1]>> \in mqtt'.extract_clip
            /\ m.request_id[1] \in mqtt'.submitted]_vars

\* ---------------------------------------------------------------- configuration claims
\* The places of the cameras of a configuration, and how often an id occurs.
CameraPlaces(v) == {p \in (1..Len(v)) \X (1..MaxCamerasPerNvr) : p[2] <= Len(v[p[1]])}
PairwiseDistinct(v) ==
    \A p, q \in CameraPlaces(v) : p # q => v[p[1]][p[2]] # v[q[1]][q[2]]
Duplicated(v, id) ==
    \E p, q \in CameraPlaces(v) : p # q /\ v[p[1]][p[2]] = id /\ v[q[1]][q[2]] = id

\* C30: for every configuration (any number of NVRs and cameras, the other
\* fields valid) load_edge_config accepts it only if all camera ids are
\* pairwise distinct across all NVRs, and a configuration with a duplicated
\* camera id is rejected with a message that contains a duplicated id.
C30_DuplicateCameraIdRejected ==
    cfg.result # NULL =>
        /\ cfg.result[1].accepted => PairwiseDistinct(cfg.nvr_list)
        /\ ~PairwiseDistinct(cfg.nvr_list) =>
              /\ ~cfg.result[1].accepted
              /\ \E i \in 1..Len(cfg.result[1].message) :
                    /\ cfg.result[1].message[i] \in CameraIdValues
                    /\ Duplicated(cfg.nvr_list, cfg.result[1].message[i])

C30_Witness ==
    /\ cfg.result # NULL
    /\ ~cfg.result[1].accepted
    /\ Len(cfg.nvr_list) = 2
    /\ \A n \in 1..2 : PairwiseDistinct(<<cfg.nvr_list[n]>>)

\* ---------------------------------------------------------------- further uploader and store claims
\* C31: for every row it processes, the Uploader has moved the row to
\* PROCESSING and stored the checksum before the presign POST, its first
\* network request, is issued: while the presign request is on the wire the
\* row is PROCESSING and carries the checksum.
C31_ProcessingBeforePresign ==
    \A w \in Workers :
        pc[w] = "presign" =>
            /\ cur[w].upload_id \in DOMAIN uploads
            /\ uploads[cur[w].upload_id].status = "PROCESSING"
            /\ uploads[cur[w].upload_id].checksum = txn[w].checksum

\* What the kwargs of a call write into a row.
KwargsWritten(row, kwargs) ==
    /\ "attempts" \in DOMAIN kwargs => row.attempts = kwargs.attempts[1]
    /\ "checksum" \in DOMAIN kwargs => row.checksum = kwargs.checksum
    /\ "final_url" \in DOMAIN kwargs => row.final_url = kwargs.final_url

\* C32: update_upload_status(upload_id, status, ...) updates the addressed row
\* and, exactly when status is UPLOADED or FAILED, sets the companion Event to
\* the same status, both or neither; for PROCESSING and PENDING_UPLOAD every
\* Event is left unchanged; every row with another upload_id is left unchanged.
C32_UpdateStatusFrame ==
    [][\A upload_id \in UpdateIds, status \in Terminal \cup NonTerminal, kwargs \in UpdateKwargs :
         UpdateUploadStatus(upload_id, status, kwargs) =>
            /\ DOMAIN uploads' = DOMAIN uploads /\ DOMAIN events' = DOMAIN events
            /\ \A x \in DOMAIN uploads \ {upload_id} : uploads'[x] = uploads[x]
            /\ status \in NonTerminal => events' = events
            /\ \/ events' = events /\ uploads' = uploads
               \/ /\ upload_id \in DOMAIN uploads
                  /\ uploads'[upload_id].status = status
                  /\ uploads'[upload_id].event_id = uploads[upload_id].event_id
                  /\ KwargsWritten(uploads'[upload_id], kwargs)
                  /\ \A e \in DOMAIN events :
                        events'[e] = IF status \in Terminal /\ e = uploads[upload_id].event_id
                                     THEN [events[e] EXCEPT !.status = status]
                                     ELSE events[e]
            /\ (/\ upload_id \in DOMAIN uploads
                /\ ("attempts" \in DOMAIN kwargs => kwargs.attempts # NULL))
                  => uploads'[upload_id].status = status]_vars

\* Two rows: one taken to UPLOADED with its final_url and its Event, the other
\* and its Event still PENDING_UPLOAD.
C32_Witness ==
    /\ DOMAIN events = StoreEvents
    /\ \E id \in DOMAIN uploads :
         /\ uploads[id].status = "UPLOADED" /\ uploads[id].final_url # NULL
         /\ events[uploads[id].event_id].status = "UPLOADED"
         /\ \E other \in DOMAIN uploads \ {id} :
               /\ uploads[other].status = "PENDING_UPLOAD"
               /\ uploads[other].final_url = NULL
               /\ events[uploads[other].event_id].status = "PENDING_UPLOAD"

\* ---------------------------------------------------------------- further sync claims
\* C33: a successful package install performs download, SHA-256 check,
\* signature check, extraction, reload POST and staging deletion in this order;
\* afterwards the model directory holds the payload, the staging archive is
\* gone and exactly one reload for the version was sent; the packages of a
\* tick are installed one after another.
C33_InstallStepsInOrder ==
    [][(/\ sync.pc = "packages"
        /\ Head(sync.queue).complete
        /\ ProcessPackage(InstallOk))
       => LET pkg == Head(sync.queue)
              r   == process_package(pkg, InstallOk, model_dir, staging, reloads)
          IN  /\ r.steps = <<"download", "sha256", "signature", "extract", "reload", "unlink">>
              /\ model_dir'[pkg.id] = FullInstall(pkg.version)
              /\ ArchiveOf(pkg) \notin staging'
              /\ pkg.version \in reloads'
              /\ sync'.queue = Tail(sync.queue)]_vars

\* C34: on every tick the packages poll sends since = the current model
\* version: after a package of version v was installed and its reload
\* succeeded, the next poll carries since = v.
C34_PollSendsCurrentVersion ==
    [][\A resp \in PackageResponses :
         PollPackages(resp) => sync'.since = Some(cv_model_version)]_vars

C36_TerminalStatusAbsorbing ==
    [][\A id \in DOMAIN uploads :
          uploads[id].status \in Terminal =>
              /\ id \in DOMAIN uploads'
              /\ uploads'[id].status = uploads[id].status]_vars

\* C37: a POST /events/new that is answered with an error status has added no
\* Event row and no PendingUpload row.
C37_ErrorAnswerLeavesStore ==
    [][\A e \in EventIds, has_clip \in BOOLEAN :
          (CreateNewEvent(e, has_clip) /\ reply'.result # "201") =>
              /\ events' = events
              /\ uploads' = uploads]_vars

\* C38: when the monitor handles the exited segmenter of one camera, every other
\* worker whose segmenter was running still has it running afterwards and the
\* monitor loop goes on.
C38_ExitLeavesOtherCameras ==
    [][\A c \in IngestCameras, jitter \in RestartJitters, spawn_ok \in BOOLEAN,
          grace \in [IngestCameras -> GraceOutcomes] :
         (/\ ingest_running
          /\ ~ingest_workers[c].stop_event
          /\ ingest_workers[c].process # NULL
          /\ ingest_workers[c].child = "exited"
          /\ CheckAndRestart(c, jitter, spawn_ok, grace))
         => /\ ingest_running'
            /\ \A d \in IngestCameras \ {c} :
                  (ingest_workers[d].process # NULL /\ ingest_workers[d].child = "running")
                  => /\ ingest_workers'[d].process # NULL
                     /\ ingest_workers'[d].child = "running"
                     /\ ~ingest_workers'[d].stop_event]_vars

\* The segmenter children of a worker that are alive.
LiveChildren(w) == (IF w.child = "running" THEN 1 ELSE 0) + w.killed_alive

\* C39: over every sequence of start, check_and_restart and stop calls, at most
\* one segmenter child started by a camera's IngestWorker is alive.
C39_OneLiveSegmenterPerCamera ==
    \A c \in DOMAIN ingest_workers : LiveChildren(ingest_workers[c]) <= 1

\* C40: once a worker's stop_event is set, by stop() or by a start() whose
\* launch failed, it stays set, every later check_and_restart leaves the worker
\* as it is (no segmenter is launched), and restart_count does not change any
\* more.
C40_StoppedWorkerStaysStopped ==
    [][\A c \in DOMAIN ingest_workers :
          ingest_workers[c].stop_event =>
              /\ ingest_workers'[c].stop_event
              /\ ingest_workers'[c].restart_count = ingest_workers[c].restart_count
              /\ \A jitter \in RestartJitters, spawn_ok \in BOOLEAN :
                    WorkerCheckAndRestart(c, jitter, spawn_ok)
                    => ingest_workers'[c] = ingest_workers[c]]_vars

\* One worker stopped by stop() with its segmenter terminated, another stopped
\* by a failed launch; neither holds a process that check_and_restart could
\* find running.
C40_Witness ==
    \E c, d \in DOMAIN ingest_workers :
        /\ ingest_workers[c].stop_event
        /\ ingest_workers[c].signals # <<>>
        /\ ingest_workers[c].process = NULL
        /\ ingest_workers[d].stop_event
        /\ ingest_workers[d].signals = <<>>
        /\ ingest_workers[d].process = NULL
        /\ ingest_workers[d].child = "none"
====
